---------------------------- MODULE Spec2Model ----------------------------
(***************************************************************************)
(* Publication and moderation workflow of the blogger repository.          *)
(*                                                                         *)
(* The repository holds two generations of the same workflow:              *)
(*   blog_app + comments : Post with a default draft status and the        *)
(*                         publish / unpublish endpoints, Comment with the *)
(*                         reply / approve / reject endpoints;             *)
(*   content             : the consolidated Post / Comment / CommentReport *)
(*                         models with their REST viewsets and admin.      *)
(* Every post row carries the app whose table it lives in; a comment lives *)
(* in the app of its post.  Both apps declare the same PostStatus model    *)
(* (content's rows are copied from blog_app's by migration 0002), so one   *)
(* registry stands for the registry of the app under consideration.        *)
(*                                                                         *)
(* Moderation entries, reports and engagements are content's tables.       *)
(* Each handler records its response in resp.  Nullable columns hold None. *)
(* Timestamps are values of the clock `now`.                                *)
(***************************************************************************)
EXTENDS Integers, Sequences, FiniteSets, TLC

VARIABLES now, statuses, posts, comments, reports, moderations, engagements,
          reading, inflight, resp

vars == <<now, statuses, posts, comments, reports, moderations, engagements,
          reading, inflight, resp>>

---------------------------------------------------------------------------
(* Bounds of the model *)

MaxPosts == 2
MaxNewPosts == 1
MaxTime == 2
MaxComments == 3
MaxReports == 2
MaxModerations == 2
MaxEngagements == 2
MaxCount == 2
MaxWords == 450
MaxRequests == 3

---------------------------------------------------------------------------
(* Values *)

None == 0

Users == {"alice", "root"}
Staff == {"root"}
Anonymous == "anon"
Actors == Users \cup {Anonymous}

Apps == {"blog", "content"}

PostIds == 1..MaxPosts
CommentIds == 1..MaxComments
ReportIds == 1..MaxReports
ModerationIds == 1..MaxModerations
EngagementIds == 1..MaxEngagements
Times == 1..MaxTime
RequestIds == 1..MaxRequests

StatusIds == {1, 2}

SeedStatuses ==
    [s \in StatusIds |->
        IF s = 1
        THEN [exists |-> TRUE, name |-> "Draft", slug |-> "draft",
              is_published |-> FALSE, is_active |-> TRUE, sort_order |-> 1]
        ELSE [exists |-> TRUE, name |-> "Published", slug |-> "published",
              is_published |-> TRUE, is_active |-> TRUE, sort_order |-> 2]]

(* The names an administrator gives a status in this model: the seeded name *)
(* or its lower-case form, the form the publish endpoints compare with.     *)
NameChoices(s) ==
    IF s = 1 THEN {"Draft", "draft"} ELSE {"Published", "published"}

(* The slugs a request may carry, and the empty default of the column. *)
Slugs == {"a", "b"}
EmptySlug == ""

NoPost ==
    [exists |-> FALSE, app |-> "none", author |-> "nobody", slug |-> EmptySlug,
     status |-> None, published_at |-> None, comment_count |-> 0,
     view_count |-> 0, like_count |-> 0]

NoComment ==
    [exists |-> FALSE, post |-> None, author |-> "nobody", parent |-> None,
     is_approved |-> FALSE, is_flagged |-> FALSE, like_count |-> 0,
     created_at |-> None]

NoReport ==
    [exists |-> FALSE, comment |-> None, reporter |-> "nobody",
     status |-> "none", resolved_at |-> None, resolved_by |-> "nobody",
     resolution_notes |-> ""]

NoModeration ==
    [exists |-> FALSE, comment |-> None, moderator |-> "nobody",
     action |-> "none", reason |-> "", created_at |-> None]

NoEngagement == [exists |-> FALSE, post |-> None, user |-> "nobody"]

NoReading == [words |-> 0, by |-> "none", minutes |-> None]

(* A request being served: what was asked, by whom, about which row, how  *)
(* far its handler has run and what it answered.                            *)
NoRequest ==
    [kind |-> "none", actor |-> Anonymous, app |-> "none", id |-> None,
     slug |-> EmptySlug, reporter |-> "nobody", pc |-> "idle", code |-> "none"]

NoResponse ==
    [op |-> "none", actor |-> Anonymous, id |-> None, code |-> "none"]

(* What the last handler answered: the operation, the caller, the row the  *)
(* request named (the new row, for a create) and the outcome.               *)
Response(op, u, id, code) ==
    [op |-> op, actor |-> u, id |-> id, code |-> code]

---------------------------------------------------------------------------
(* Status registry *)

StatusIsPublished(s) == s # None /\ statuses[s].is_published

(* PostStatus.objects.get(name=n): the rows with that exact name. *)
StatusByName(n) == {s \in StatusIds : statuses[s].exists /\ statuses[s].name = n}

(* PostStatus.objects.filter(slug='draft', is_active=True).first() *)
DefaultStatus ==
    LET c == {s \in StatusIds : /\ statuses[s].exists
                                /\ statuses[s].slug = "draft"
                                /\ statuses[s].is_active}
    IN IF c = {} THEN None ELSE CHOOSE s \in c : \A t \in c : s <= t

---------------------------------------------------------------------------
(* Post.save *)

(* The publishing rule without its clearing branch. *)
PublishingRuleKeeps(rec) ==
    IF rec.status # None /\ statuses[rec.status].is_published /\ rec.published_at = None
    THEN [rec EXCEPT !.published_at = now]
    ELSE rec

(* The publishing rule shared by both Post.save methods. *)
PublishingRule(rec) ==
    IF rec.status # None /\ statuses[rec.status].is_published
       /\ rec.published_at = None
    THEN [rec EXCEPT !.published_at = now]
    ELSE IF rec.status # None /\ ~statuses[rec.status].is_published
         THEN [rec EXCEPT !.published_at = None]
         ELSE rec

(* blog_app.Post.save: default status, then the publishing rule. *)
BlogSave(rec) ==
    PublishingRule(IF rec.status = None
                   THEN [rec EXCEPT !.status = DefaultStatus]
                   ELSE rec)

(* content.Post.save: the publishing rule alone. *)
ContentSave(rec) == PublishingRule(rec)

SaveOf(app, rec) == IF app = "blog" THEN BlogSave(rec) ELSE ContentSave(rec)

(* Post.is_published of the two models. *)
BlogIsPublished(rec) == rec.status # None /\ statuses[rec.status].is_published

ContentIsPublished(rec) ==
    /\ rec.status # None
    /\ statuses[rec.status].is_published
    /\ rec.published_at # None
    /\ rec.published_at <= now

IsPublished(p) ==
    IF posts[p].app = "blog" THEN BlogIsPublished(posts[p])
    ELSE ContentIsPublished(posts[p])

FreePostIds == {p \in PostIds : ~posts[p].exists}
NewPostId == CHOOSE p \in FreePostIds : \A q \in FreePostIds : p <= q

ExistingStatuses == {s \in StatusIds : statuses[s].exists}

---------------------------------------------------------------------------
Init ==
    /\ now = 1
    /\ statuses = SeedStatuses
    /\ posts = [p \in PostIds |-> NoPost]
    /\ comments = [c \in CommentIds |-> NoComment]
    /\ reports = [r \in ReportIds |-> NoReport]
    /\ moderations = [m \in ModerationIds |-> NoModeration]
    /\ engagements = [e \in EngagementIds |-> NoEngagement]
    /\ reading = NoReading
    /\ inflight = [r \in RequestIds |-> NoRequest]
    /\ resp = NoResponse

(* Time passes between requests. *)
Tick ==
    /\ now < MaxTime
    /\ now' = now + 1
    /\ UNCHANGED <<inflight, statuses, posts, comments, reports, resp, moderations, engagements, reading>>


---------------------------------------------------------------------------
(* Post handlers: create, update, admin change form *)

MayGiveStatus == ExistingStatuses \cup {None}

(* slug is unique=True in the table of each app. *)
SlugTaken(app, slug, self) ==
    \E q \in PostIds :
        /\ q # self
        /\ posts[q].exists /\ posts[q].app = app /\ posts[q].slug = slug

(* The slug a create stores.  blog_app's PostCreateUpdateSerializer has a  *)
(* slug field; content's has none, so the column keeps its empty default.  *)
StoredSlug(app, slug) == IF app = "blog" THEN slug ELSE EmptySlug

(* blog_app: validate_slug refuses a slug another post holds.              *)
(* content : nothing validates; the INSERT meets the unique index.         *)
PostCreateCode(app, slug) ==
    IF ~SlugTaken(app, StoredSlug(app, slug), None) THEN "ok"
    ELSE IF app = "blog" THEN "DuplicateSlug"
    ELSE "ServerError"

(* PostViewSet.create of either app: perform_create saves with the caller *)
(* as author; the serializers take an optional status and no published_at. *)
PostCreate(app, u, s, slug) ==
    /\ FreePostIds # {}
    /\ LET p == NewPostId
           code == PostCreateCode(app, slug)
           rec == SaveOf(app, [exists |-> TRUE, app |-> app, author |-> u,
                               slug |-> StoredSlug(app, slug),
                               status |-> s, published_at |-> None,
                               comment_count |-> 0,
     view_count |-> 0, like_count |-> 0])
       IN /\ posts' = IF code = "ok" THEN [posts EXCEPT ![p] = rec] ELSE posts
          /\ resp' = Response("create", u, IF code = "ok" THEN p ELSE None, code)
    /\ UNCHANGED <<inflight, now, statuses, comments, reports, moderations, engagements, reading>>

(* Who may update a post through the API.                                   *)
(*   blog_app: IsAuthorOrReadOnly, the author alone.                        *)
(*   content : get_queryset hides other users' unpublished posts from       *)
(*             non-staff; perform_update lets staff and the author through. *)
UpdateCode(u, p) ==
    IF posts[p].app = "blog"
    THEN IF posts[p].author = u THEN "ok" ELSE "Forbidden"
    ELSE IF u \notin Staff /\ posts[p].author # u
              /\ ~StatusIsPublished(posts[p].status)
         THEN "NotFound"
         ELSE IF u \notin Staff /\ posts[p].author # u
              THEN "Forbidden"
              ELSE "ok"

(* validate_slug of blog_app on an update: the post's own slug passes. *)
PostUpdateCode(u, p, slug) ==
    IF UpdateCode(u, p) # "ok" THEN UpdateCode(u, p)
    ELSE IF posts[p].app = "blog" /\ slug # posts[p].slug
            /\ SlugTaken("blog", slug, p)
         THEN "DuplicateSlug"
         ELSE "ok"

UpdatedSlug(p, slug) == IF posts[p].app = "blog" THEN slug ELSE posts[p].slug

(* PostViewSet.update: PostCreateUpdateSerializer.update sets the fields   *)
(* and calls instance.save().                                               *)
PostUpdate(u, p, s, slug) ==
    /\ posts[p].exists
    /\ LET code == PostUpdateCode(u, p, slug)
       IN /\ posts' = IF code = "ok"
                      THEN [posts EXCEPT ![p] =
                               SaveOf(posts[p].app,
                                      [posts[p] EXCEPT !.status = s,
                                                       !.slug = UpdatedSlug(p, slug)])]
                      ELSE posts
          /\ resp' = Response("update", u, p, code)
    /\ UNCHANGED <<inflight, now, statuses, comments, reports, moderations, engagements, reading>>

(* The admin change form of a post.  content.PostAdmin edits status and    *)
(* published_at; blog_app.PostAdmin lists published_at as read-only.        *)
AdminSavePost(u, p, s, t) ==
    /\ u \in Staff
    /\ posts[p].exists
    /\ posts[p].app = "blog" => t = posts[p].published_at
    /\ posts' = [posts EXCEPT ![p] =
                    SaveOf(posts[p].app,
                           [posts[p] EXCEPT !.status = s, !.published_at = t])]
    /\ resp' = Response("admin_post", u, p, "ok")
    /\ UNCHANGED <<inflight, now, statuses, comments, reports, moderations, engagements, reading>>

---------------------------------------------------------------------------
(* Registry administration (PostStatusAdmin change and delete views) *)

AdminSetStatusFlag(u, s, b) ==
    /\ u \in Staff
    /\ statuses[s].exists
    /\ statuses[s].is_published # b
    /\ statuses' = [statuses EXCEPT ![s].is_published = b]
    /\ resp' = Response("admin_status_flag", u, s, "ok")
    /\ UNCHANGED <<inflight, now, posts, comments, reports, moderations, engagements, reading>>

(* name is unique=True: a name another row holds is refused by the form. *)
AdminRenameStatus(u, s, n) ==
    /\ u \in Staff
    /\ statuses[s].exists
    /\ statuses[s].name # n
    /\ StatusByName(n) = {}
    /\ statuses' = [statuses EXCEPT ![s].name = n]
    /\ resp' = Response("admin_status_name", u, s, "ok")
    /\ UNCHANGED <<inflight, now, posts, comments, reports, moderations, engagements, reading>>

DeletedStatus ==
    [exists |-> FALSE, name |-> "", slug |-> "",
     is_published |-> FALSE, is_active |-> FALSE, sort_order |-> 0]

(* Post.status is on_delete=SET_NULL: the posts keep their other columns. *)
AdminDeleteStatus(u, s) ==
    /\ u \in Staff
    /\ statuses[s].exists
    /\ statuses' = [statuses EXCEPT ![s] = DeletedStatus]
    /\ posts' = [p \in PostIds |->
                    IF posts[p].exists /\ posts[p].status = s
                    THEN [posts[p] EXCEPT !.status = None]
                    ELSE posts[p]]
    /\ resp' = Response("admin_status_delete", u, s, "ok")
    /\ UNCHANGED <<inflight, now, comments, reports, moderations, engagements, reading>>

---------------------------------------------------------------------------
(* blog_app PostViewSet.publish / unpublish *)

(* publish letting staff through. *)
PublishCodeStaff(u, p) ==
    IF u = Anonymous THEN "NotAuthenticated"
    ELSE IF posts[p].author # u /\ u \notin Staff THEN "Forbidden"
    ELSE IF posts[p].status = None THEN "ServerError"
    ELSE IF statuses[posts[p].status].name # "draft" THEN "InvalidTransition"
    ELSE IF StatusByName("published") = {} THEN "ServerError"
    ELSE "ok"

(* publish without its test of the current status. *)
PublishCodeAnyStatus(u, p) ==
    IF u = Anonymous THEN "NotAuthenticated"
    ELSE IF posts[p].author # u THEN "Forbidden"
    ELSE IF posts[p].status = None THEN "ServerError"
    ELSE IF StatusByName("published") = {} THEN "ServerError"
    ELSE "ok"

(* The response of publish, in the order of the handler's checks.          *)
(*   IsAuthenticated, then author, then post.status.name (an AttributeError *)
(*   when the post has no status), then PostStatus.objects.get(name=...).   *)
PublishCode(u, p) ==
    IF u = Anonymous THEN "NotAuthenticated"
    ELSE IF posts[p].author # u THEN "Forbidden"
    ELSE IF posts[p].status = None THEN "ServerError"
    ELSE IF statuses[posts[p].status].name # "draft" THEN "InvalidTransition"
    ELSE IF StatusByName("published") = {} THEN "ServerError"
    ELSE "ok"

UnpublishCode(u, p) ==
    IF u = Anonymous THEN "NotAuthenticated"
    ELSE IF posts[p].author # u THEN "Forbidden"
    ELSE IF posts[p].status = None THEN "ServerError"
    ELSE IF statuses[posts[p].status].name # "published" THEN "InvalidTransition"
    ELSE IF StatusByName("draft") = {} THEN "ServerError"
    ELSE "ok"

(* post.status = published_status; post.published_at = timezone.now();     *)
(* post.save()                                                              *)
PublishedRecord(rec) ==
    BlogSave([rec EXCEPT !.status = CHOOSE s \in StatusByName("published") : TRUE,
                         !.published_at = now])

(* post.status = draft_status; post.published_at = None; post.save() *)
UnpublishedRecord(rec) ==
    BlogSave([rec EXCEPT !.status = CHOOSE s \in StatusByName("draft") : TRUE,
                         !.published_at = None])

Publish(u, p) ==
    /\ posts[p].exists
    /\ posts[p].app = "blog"
    /\ LET code == PublishCode(u, p)
       IN /\ posts' = IF code = "ok"
                      THEN [posts EXCEPT ![p] = PublishedRecord(posts[p])]
                      ELSE posts
          /\ resp' = Response("publish", u, p, code)
    /\ UNCHANGED <<inflight, now, statuses, comments, reports, moderations, engagements, reading>>

Unpublish(u, p) ==
    /\ posts[p].exists
    /\ posts[p].app = "blog"
    /\ LET code == UnpublishCode(u, p)
       IN /\ posts' = IF code = "ok"
                      THEN [posts EXCEPT ![p] = UnpublishedRecord(posts[p])]
                      ELSE posts
          /\ resp' = Response("unpublish", u, p, code)
    /\ UNCHANGED <<inflight, now, statuses, comments, reports, moderations, engagements, reading>>

---------------------------------------------------------------------------
(* The post lifecycle: create, status change, publish, unpublish, and the  *)
(* registry's administration.                                               *)

(* The lifecycle leaves slugs alone: one slug, kept by every update. *)
FirstSlug == {"a"}

NextLifecycle ==
    \/ Tick
    \/ /\ Cardinality(PostIds \ FreePostIds) < MaxNewPosts
       /\ \E app \in Apps, u \in Users, s \in MayGiveStatus, slug \in FirstSlug :
              PostCreate(app, u, s, slug)
    \/ \E u \in Users, p \in PostIds, s \in MayGiveStatus :
          PostUpdate(u, p, s, posts[p].slug)
    \/ \E u \in Actors, p \in PostIds : Publish(u, p)
    \/ \E u \in Actors, p \in PostIds : Unpublish(u, p)
    \/ \E u \in Staff, s \in StatusIds, b \in BOOLEAN : AdminSetStatusFlag(u, s, b)
    \/ \E u \in Staff, s \in StatusIds : \E n \in NameChoices(s) : AdminRenameStatus(u, s, n)
    \/ \E u \in Staff, s \in StatusIds : AdminDeleteStatus(u, s)

SpecLifecycle == Init /\ [][NextLifecycle]_vars

(* The lifecycle with the admin change form of a post. *)
NextPosts ==
    \/ NextLifecycle
    \/ \E u \in Staff, p \in PostIds, s \in MayGiveStatus, t \in Times \cup {None} :
          AdminSavePost(u, p, s, t)

SpecPosts == Init /\ [][NextPosts]_vars


---------------------------------------------------------------------------
(* Comment threads *)

LiveComments == {c \in CommentIds : comments[c].exists}
FreeCommentIds == CommentIds \ LiveComments
NewCommentId == CHOOSE c \in FreeCommentIds : \A d \in FreeCommentIds : c <= d

(* A comment lives in the table of the app of its post. *)
AppOfComment(c) == posts[comments[c].post].app

(* Comment(...).save() of a new row: is_approved defaults to True,         *)
(* is_flagged to False, like_count to 0, created_at is auto_now_add.        *)
NewComment(u, p, parent) ==
    [exists |-> TRUE, post |-> p, author |-> u, parent |-> parent,
     is_approved |-> TRUE, is_flagged |-> FALSE, like_count |-> 0,
     created_at |-> now]

(* What validate_parent compares.  The parent's post is a Post instance;   *)
(* initial_data['post'] is the primary key the request carried.             *)
PostInstance(p) == <<"Post", p>>
RawPk(p) == <<"pk", p>>

(* content.CommentCreateSerializer.validate_parent:                        *)
(*   value and value.post != self.initial_data.get('post')                 *)
(* Model.__eq__ answers NotImplemented for a value that is no model, so an *)
(* instance never equals the key.                                           *)
ContentParentRejected(parent, p) ==
    parent # None /\ PostInstance(comments[parent].post) # RawPk(p)

(* comments.CommentCreateSerializer.validate_parent:                       *)
(*   value.post.id != int(post_id)                                          *)
BlogParentRejected(parent, p) ==
    parent # None /\ comments[parent].post # p

ParentRejected(app, parent, p) ==
    IF app = "blog" THEN BlogParentRejected(parent, p)
    ELSE ContentParentRejected(parent, p)

(* The response of CommentViewSet.create: the related fields resolve the   *)
(* keys in their own app's tables, then validate_parent runs.               *)
CommentCreateCode(app, u, p, parent) ==
    IF u = Anonymous THEN "NotAuthenticated"
    ELSE IF ~posts[p].exists \/ posts[p].app # app THEN "Invalid"
    ELSE IF parent # None /\ (~comments[parent].exists \/ AppOfComment(parent) # app)
         THEN "Invalid"
    ELSE IF ParentRejected(app, parent, p) THEN "CrossPostParent"
    ELSE "created"

CommentCreate(app, u, p, parent) ==
    /\ FreeCommentIds # {}
    /\ LET code == CommentCreateCode(app, u, p, parent)
           c == NewCommentId
       IN /\ comments' = IF code = "created"
                         THEN [comments EXCEPT ![c] = NewComment(u, p, parent)]
                         ELSE comments
          /\ resp' = Response("comment_create", u,
                              IF code = "created" THEN c ELSE None, code)
    /\ UNCHANGED <<inflight, now, statuses, posts, reports, moderations, engagements, reading>>

(* comments CommentViewSet.reply: the parent comes from the URL, the post  *)
(* of the reply is overwritten with the parent's post before validation.    *)
ReplyPost(given, parent) == comments[parent].post

Reply(u, parent, given) ==
    /\ FreeCommentIds # {}
    /\ comments[parent].exists
    /\ AppOfComment(parent) = "blog"
    /\ LET p == ReplyPost(given, parent)
           code == CommentCreateCode("blog", u, p, parent)
           c == NewCommentId
       IN /\ comments' = IF code = "created"
                         THEN [comments EXCEPT ![c] = NewComment(u, p, parent)]
                         ELSE comments
          /\ resp' = Response("reply", u,
                              IF code = "created" THEN c ELSE None, code)
    /\ UNCHANGED <<inflight, now, statuses, posts, reports, moderations, engagements, reading>>

(* content CommentViewSet.update: CommentSerializer leaves parent          *)
(* writable; get_queryset shows non-staff the approved comments only;       *)
(* perform_update lets staff and the author through.                        *)
CommentUpdateCode(u, c, parent) ==
    IF u = Anonymous THEN "NotAuthenticated"
    ELSE IF u \notin Staff /\ ~comments[c].is_approved THEN "NotFound"
    ELSE IF parent # None /\ (~comments[parent].exists \/ AppOfComment(parent) # "content")
         THEN "Invalid"
    ELSE IF u \notin Staff /\ comments[c].author # u THEN "Forbidden"
    ELSE "ok"

CommentUpdate(u, c, parent) ==
    /\ comments[c].exists
    /\ AppOfComment(c) = "content"
    /\ LET code == CommentUpdateCode(u, c, parent)
       IN /\ comments' = IF code = "ok"
                         THEN [comments EXCEPT ![c].parent = parent]
                         ELSE comments
          /\ resp' = Response("comment_update", u, c, code)
    /\ UNCHANGED <<inflight, now, statuses, posts, reports, moderations, engagements, reading>>

(* approve and reject of the comments app's CommentViewSet. *)
ModerateCode(u) ==
    IF u = Anonymous THEN "NotAuthenticated"
    ELSE IF u \notin Staff THEN "Forbidden"
    ELSE "ok"

Approve(u, c) ==
    /\ comments[c].exists
    /\ AppOfComment(c) = "blog"
    /\ LET code == ModerateCode(u)
       IN /\ comments' = IF code = "ok"
                         THEN [comments EXCEPT ![c].is_approved = TRUE]
                         ELSE comments
          /\ resp' = Response("approve", u, c, code)
    /\ UNCHANGED <<inflight, now, statuses, posts, reports, moderations, engagements, reading>>

Reject(u, c) ==
    /\ comments[c].exists
    /\ AppOfComment(c) = "blog"
    /\ LET code == ModerateCode(u)
       IN /\ comments' = IF code = "ok"
                         THEN [comments EXCEPT ![c].is_approved = FALSE]
                         ELSE comments
          /\ resp' = Response("reject", u, c, code)
    /\ UNCHANGED <<inflight, now, statuses, posts, reports, moderations, engagements, reading>>

(* The is_approved box of the CommentAdmin change form. *)
AdminSetApproved(u, c, b) ==
    /\ u \in Staff
    /\ comments[c].exists
    /\ comments[c].is_approved # b
    /\ comments' = [comments EXCEPT ![c].is_approved = b]
    /\ resp' = Response("admin_comment", u, c, "ok")
    /\ UNCHANGED <<inflight, now, statuses, posts, reports, moderations, engagements, reading>>

---------------------------------------------------------------------------
(* Comment.get_replies and the replies endpoint:                           *)
(*   self.replies.filter(is_approved=True).order_by('created_at')          *)
(* The database orders rows of equal created_at as it pleases: every       *)
(* ordering it may return is a result.                                      *)

(* The listing without the approval filter. *)
RepliesUnfiltered(c) ==
    {d \in LiveComments : comments[d].parent = c}

ApprovedReplies(c) ==
    {d \in LiveComments : comments[d].parent = c /\ comments[d].is_approved}

SeqsOver(S) ==
    {q \in UNION {[1..n -> S] : n \in {Cardinality(S)}} :
        \A i, j \in DOMAIN q : i # j => q[i] # q[j]}

GetReplies(c) ==
    {q \in SeqsOver(ApprovedReplies(c)) :
        \A i, j \in DOMAIN q :
            i < j => comments[q[i]].created_at <= comments[q[j]].created_at}

---------------------------------------------------------------------------
(* Threads on two existing posts of one app. *)

ThreadPost(app, slug) ==
    [exists |-> TRUE, app |-> app, author |-> "alice", slug |-> slug,
     status |-> None, published_at |-> None, comment_count |-> 0,
     view_count |-> 0, like_count |-> 0]

InitThreads ==
    /\ now = 1
    /\ statuses = SeedStatuses
    /\ \E app \in Apps :
          posts = [p \in PostIds |->
                      IF p = 1 THEN ThreadPost(app, "a")
                      ELSE IF p = 2 THEN ThreadPost(app, "b")
                      ELSE NoPost]
    /\ comments = [c \in CommentIds |-> NoComment]
    /\ reports = [r \in ReportIds |-> NoReport]
    /\ moderations = [m \in ModerationIds |-> NoModeration]
    /\ engagements = [e \in EngagementIds |-> NoEngagement]
    /\ reading = NoReading
    /\ inflight = [r \in RequestIds |-> NoRequest]
    /\ resp = NoResponse

(* Building threads: create, reply, and the update that moves a comment. *)
NextThreads ==
    \/ \E app \in Apps, u \in Users, p \in PostIds, parent \in CommentIds \cup {None} :
          CommentCreate(app, u, p, parent)
    \/ \E u \in Users, parent \in CommentIds, given \in PostIds \cup {None} :
          Reply(u, parent, given)
    \/ \E u \in Users, c \in CommentIds, parent \in CommentIds \cup {None} :
          CommentUpdate(u, c, parent)

SpecThreads == InitThreads /\ [][NextThreads]_vars

(* Listing replies: comments arrive over time and are moderated. *)
Commenters == {"alice"}

NextReplies ==
    \/ Tick
    \/ \E app \in Apps, u \in Commenters, p \in PostIds, parent \in CommentIds \cup {None} :
          CommentCreate(app, u, p, parent)
    \/ \E u \in Commenters, parent \in CommentIds, given \in PostIds \cup {None} :
          Reply(u, parent, given)
    \/ \E u \in Users, c \in CommentIds : Approve(u, c)
    \/ \E u \in Users, c \in CommentIds : Reject(u, c)
    \/ \E u \in Staff, c \in CommentIds, b \in BOOLEAN : AdminSetApproved(u, c, b)

SpecReplies == InitThreads /\ [][NextReplies]_vars

---------------------------------------------------------------------------
(* Comment reports (content app) *)

LiveReports == {r \in ReportIds : reports[r].exists}
FreeReportIds == ReportIds \ LiveReports
NewReportId == CHOOSE r \in FreeReportIds : \A q \in FreeReportIds : r <= q

HasReport(c, u) ==
    \E r \in LiveReports : reports[r].comment = c /\ reports[r].reporter = u

NewReport(c, u) ==
    [exists |-> TRUE, comment |-> c, reporter |-> u, status |-> "pending",
     resolved_at |-> None, resolved_by |-> "nobody", resolution_notes |-> ""]

(* CommentReportSerializer declares comment as a read-only nested          *)
(* serializer: the comment the request names never reaches validated_data. *)
(* perform_create adds the reporter.                                        *)
ReportValidatedData(u, c) == [comment |-> None, reporter |-> u]

(* The INSERT: comment is NOT NULL and (comment, reporter) is unique. *)
ReportInsertCode(data) ==
    IF data.comment = None THEN "ServerError"
    ELSE IF HasReport(data.comment, data.reporter) THEN "ServerError"
    ELSE "created"

ReportCreateCode(u, c) ==
    IF u = Anonymous THEN "NotAuthenticated"
    ELSE ReportInsertCode(ReportValidatedData(u, c))

ReportCreate(u, c) ==
    /\ FreeReportIds # {}
    /\ comments[c].exists
    /\ AppOfComment(c) = "content"
    /\ LET code == ReportCreateCode(u, c)
           data == ReportValidatedData(u, c)
       IN /\ reports' = IF code = "created"
                        THEN [reports EXCEPT ![NewReportId] = NewReport(data.comment, data.reporter)]
                        ELSE reports
          /\ resp' = Response("report", u, c, code)
    /\ UNCHANGED <<inflight, now, statuses, posts, comments, moderations, engagements, reading>>

(* The add form of CommentReportAdmin: comment and reporter are form       *)
(* fields, the model form validates unique_together before saving.          *)
AdminAddReportCode(c, reporter) ==
    IF HasReport(c, reporter) THEN "DuplicateReport" ELSE "created"

AdminAddReport(u, c, reporter) ==
    /\ u \in Staff
    /\ FreeReportIds # {}
    /\ comments[c].exists
    /\ AppOfComment(c) = "content"
    /\ LET code == AdminAddReportCode(c, reporter)
       IN /\ reports' = IF code = "created"
                        THEN [reports EXCEPT ![NewReportId] = NewReport(c, reporter)]
                        ELSE reports
          /\ resp' = Response("admin_report", u, c, code)
    /\ UNCHANGED <<inflight, now, statuses, posts, comments, moderations, engagements, reading>>

NextReports ==
    \/ \E app \in Apps, u \in Commenters, p \in PostIds, parent \in CommentIds \cup {None} :
          CommentCreate(app, u, p, parent)
    \/ \E u \in Actors, c \in CommentIds : ReportCreate(u, c)
    \/ \E u \in Staff, c \in CommentIds, reporter \in Users : AdminAddReport(u, c, reporter)

SpecReports == InitThreads /\ [][NextReports]_vars

---------------------------------------------------------------------------
(* The report workflow (content app) *)

ReportStatuses == {"pending", "under_review", "resolved", "dismissed"}
TerminalStatuses == {"resolved", "dismissed"}
Notes == {"", "note"}

(* CommentReportViewSet.get_queryset: staff see every report, the others   *)
(* their own.                                                               *)
ReportVisible(u, r) ==
    reports[r].exists /\ (u \in Staff \/ reports[r].reporter = u)

(* CommentReportViewSet.resolve: IsAuthenticated, then the staff test,     *)
(* then get_object.                                                         *)
ResolveCode(u, r) ==
    IF u = Anonymous THEN "NotAuthenticated"
    ELSE IF u \notin Staff THEN "Forbidden"
    ELSE IF ~ReportVisible(u, r) THEN "NotFound"
    ELSE "ok"

ResolvedRecord(rec, u, notes) ==
    [rec EXCEPT !.status = "resolved", !.resolved_by = u,
                !.resolved_at = now, !.resolution_notes = notes]

Resolve(u, r, notes) ==
    /\ reports[r].exists
    /\ LET code == ResolveCode(u, r)
       IN /\ reports' = IF code = "ok"
                        THEN [reports EXCEPT ![r] = ResolvedRecord(reports[r], u, notes)]
                        ELSE reports
          /\ resp' = Response("resolve", u, r, code)
    /\ UNCHANGED <<inflight, now, statuses, posts, comments, moderations, engagements, reading>>

(* CommentReportViewSet.update: CommentReportSerializer leaves status and  *)
(* resolution_notes writable; nothing but get_queryset restricts callers.  *)
ReportUpdateCode(u, r) ==
    IF u = Anonymous THEN "NotAuthenticated"
    ELSE IF ~ReportVisible(u, r) THEN "NotFound"
    ELSE "ok"

ReportUpdate(u, r, st, notes) ==
    /\ reports[r].exists
    /\ LET code == ReportUpdateCode(u, r)
       IN /\ reports' = IF code = "ok"
                        THEN [reports EXCEPT ![r].status = st,
                                             ![r].resolution_notes = notes]
                        ELSE reports
          /\ resp' = Response("report_update", u, r, code)
    /\ UNCHANGED <<inflight, now, statuses, posts, comments, moderations, engagements, reading>>

(* The bulk actions of CommentReportAdmin: queryset.update on the selected *)
(* reports, whatever their status.                                          *)
AdminMarkReviewed(u, sel) ==
    /\ u \in Staff
    /\ sel # {} /\ sel \subseteq LiveReports
    /\ reports' = [r \in ReportIds |->
                      IF r \in sel
                      THEN [reports[r] EXCEPT !.status = "under_review"]
                      ELSE reports[r]]
    /\ resp' = Response("admin_mark_reviewed", u, None, "ok")
    /\ UNCHANGED <<inflight, now, statuses, posts, comments, moderations, engagements, reading>>

AdminMarkClosed(u, sel, outcome) ==
    /\ u \in Staff
    /\ sel # {} /\ sel \subseteq LiveReports
    /\ reports' = [r \in ReportIds |->
                      IF r \in sel
                      THEN [reports[r] EXCEPT !.status = outcome,
                                              !.resolved_at = now,
                                              !.resolved_by = u]
                      ELSE reports[r]]
    /\ resp' = Response("admin_mark_" \o outcome, u, None, "ok")
    /\ UNCHANGED <<inflight, now, statuses, posts, comments, moderations, engagements, reading>>

(* A content comment exists and reports on it are handled. *)
InitResolution ==
    /\ now = 1
    /\ statuses = SeedStatuses
    /\ posts = [p \in PostIds |->
                   IF p = 1 THEN ThreadPost("content", "a")
                   ELSE IF p = 2 THEN ThreadPost("content", "b")
                   ELSE NoPost]
    /\ comments = [c \in CommentIds |->
                      IF c = 1 THEN NewComment("alice", 1, None) ELSE NoComment]
    /\ reports = [r \in ReportIds |-> NoReport]
    /\ moderations = [m \in ModerationIds |-> NoModeration]
    /\ engagements = [e \in EngagementIds |-> NoEngagement]
    /\ reading = NoReading
    /\ inflight = [r \in RequestIds |-> NoRequest]
    /\ resp = NoResponse

NextResolution ==
    \/ Tick
    \/ \E u \in Staff, c \in CommentIds, reporter \in Users : AdminAddReport(u, c, reporter)
    \/ \E u \in Actors, r \in ReportIds, notes \in Notes : Resolve(u, r, notes)
    \/ \E u \in Users, r \in ReportIds, st \in ReportStatuses, notes \in Notes :
          ReportUpdate(u, r, st, notes)
    \/ \E u \in Staff, sel \in SUBSET ReportIds : AdminMarkReviewed(u, sel)
    \/ \E u \in Staff, sel \in SUBSET ReportIds, outcome \in TerminalStatuses :
          AdminMarkClosed(u, sel, outcome)

SpecResolution == InitResolution /\ [][NextResolution]_vars

---------------------------------------------------------------------------
(* Moderation of content comments: approve, flag, the admin's bulk actions *)

(* content CommentViewSet.get_queryset: non-staff see approved comments. *)
CommentVisible(u, c) ==
    comments[c].exists /\ (u \in Staff \/ comments[c].is_approved)

(* content CommentViewSet.approve: IsAuthenticatedOrReadOnly, the staff    *)
(* test, get_object; then the comment is saved approved and the post's     *)
(* comment_count is incremented.                                            *)
ContentApprove(u, c) ==
    /\ comments[c].exists
    /\ AppOfComment(c) = "content"
    /\ LET code == ModerateCode(u)
           p == comments[c].post
       IN /\ code = "ok" => posts[p].comment_count < MaxCount
          /\ comments' = IF code = "ok"
                         THEN [comments EXCEPT ![c].is_approved = TRUE]
                         ELSE comments
          /\ posts' = IF code = "ok"
                      THEN [posts EXCEPT ![p].comment_count = @ + 1]
                      ELSE posts
          /\ resp' = Response("approve", u, c, code)
    /\ UNCHANGED <<inflight, now, statuses, reports, moderations, engagements, reading>>

(* flag without the authentication requirement. *)
FlagCodeOpen(u, c) ==
    IF ~CommentVisible(u, c) THEN "NotFound" ELSE "ok"

(* content CommentViewSet.flag *)
FlagCode(u, c) ==
    IF u = Anonymous THEN "NotAuthenticated"
    ELSE IF ~CommentVisible(u, c) THEN "NotFound"
    ELSE "ok"

Flag(u, c) ==
    /\ comments[c].exists
    /\ AppOfComment(c) = "content"
    /\ LET code == FlagCode(u, c)
       IN /\ comments' = IF code = "ok"
                         THEN [comments EXCEPT ![c].is_flagged = TRUE]
                         ELSE comments
          /\ resp' = Response("flag", u, c, code)
    /\ UNCHANGED <<inflight, now, statuses, posts, reports, moderations, engagements, reading>>

(* The bulk actions of content's CommentAdmin: queryset.update on the      *)
(* selected comments.                                                       *)
ContentComments == {c \in LiveComments : AppOfComment(c) = "content"}

AdminApproveComments(u, sel) ==
    /\ u \in Staff
    /\ sel # {} /\ sel \subseteq ContentComments
    /\ comments' = [c \in CommentIds |->
                       IF c \in sel
                       THEN [comments[c] EXCEPT !.is_approved = TRUE,
                                                !.is_flagged = FALSE]
                       ELSE comments[c]]
    /\ resp' = Response("admin_approve_comments", u, None, "ok")
    /\ UNCHANGED <<inflight, now, statuses, posts, reports, moderations, engagements, reading>>

AdminSetFlags(u, sel, b) ==
    /\ u \in Staff
    /\ sel # {} /\ sel \subseteq ContentComments
    /\ comments' = [c \in CommentIds |->
                       IF c \in sel
                       THEN [comments[c] EXCEPT !.is_flagged = b]
                       ELSE comments[c]]
    /\ resp' = Response(IF b THEN "admin_flag_comments" ELSE "admin_unflag_comments",
                        u, None, "ok")
    /\ UNCHANGED <<inflight, now, statuses, posts, reports, moderations, engagements, reading>>

(* Comments on the first post are moderated. *)
FirstPost == {1}

NextModeration ==
    \/ \E app \in Apps, u \in Commenters, p \in FirstPost :
          CommentCreate(app, u, p, None)
    \/ \E u \in Actors, c \in CommentIds : Approve(u, c)
    \/ \E u \in Actors, c \in CommentIds : Reject(u, c)
    \/ \E u \in Actors, c \in CommentIds : ContentApprove(u, c)
    \/ \E u \in Actors, c \in CommentIds : Flag(u, c)
    \/ \E u \in Staff, c \in CommentIds, b \in BOOLEAN : AdminSetApproved(u, c, b)
    \/ \E u \in Staff, sel \in SUBSET CommentIds : AdminApproveComments(u, sel)
    \/ \E u \in Staff, sel \in SUBSET CommentIds, b \in BOOLEAN : AdminSetFlags(u, sel, b)

SpecModeration == InitThreads /\ [][NextModeration]_vars

---------------------------------------------------------------------------
(* The moderation log *)

LiveModerations == {m \in ModerationIds : moderations[m].exists}
FreeModerationIds == ModerationIds \ LiveModerations
NewModerationId == CHOOSE m \in FreeModerationIds : \A n \in FreeModerationIds : m <= n

ModerationActions == {"approved", "rejected"}
Reasons == {"", "reason"}

NewModeration(c, u, action, reason) ==
    [exists |-> TRUE, comment |-> c, moderator |-> u, action |-> action,
     reason |-> reason, created_at |-> now]

(* CommentModerationViewSet is open to staff alone (IsAdminUser). *)
LogCode(u) ==
    IF u = Anonymous THEN "NotAuthenticated"
    ELSE IF u \notin Staff THEN "Forbidden"
    ELSE "ok"

(* CommentModerationViewSet.create: CommentModerationSerializer declares   *)
(* comment read-only, so the row is inserted without a comment and the     *)
(* NOT NULL column refuses it.                                              *)
ModerationCreateCode(u) ==
    IF LogCode(u) # "ok" THEN LogCode(u) ELSE "ServerError"

ModerationCreate(u, c, action) ==
    /\ comments[c].exists
    /\ resp' = Response("moderation_create", u, c, ModerationCreateCode(u))
    /\ UNCHANGED <<inflight, now, statuses, posts, comments, reports, moderations, engagements, reading>>

(* The add form of CommentModerationAdmin and the inline of CommentAdmin. *)
AdminAddModeration(u, c, action) ==
    /\ u \in Staff
    /\ FreeModerationIds # {}
    /\ comments[c].exists
    /\ moderations' = [moderations EXCEPT ![NewModerationId] = NewModeration(c, u, action, "")]
    /\ resp' = Response("admin_moderation", u, c, "ok")
    /\ UNCHANGED <<inflight, now, statuses, posts, comments, reports, engagements, reading>>

(* CommentModerationViewSet.update: action and reason are writable. *)
ModerationUpdate(u, m, action, reason) ==
    /\ moderations[m].exists
    /\ LET code == LogCode(u)
       IN /\ moderations' = IF code = "ok"
                            THEN [moderations EXCEPT ![m].action = action,
                                                     ![m].reason = reason]
                            ELSE moderations
          /\ resp' = Response("moderation_update", u, m, code)
    /\ UNCHANGED <<inflight, now, statuses, posts, comments, reports, engagements, reading>>

(* CommentModerationViewSet.destroy *)
ModerationDelete(u, m) ==
    /\ moderations[m].exists
    /\ LET code == LogCode(u)
       IN /\ moderations' = IF code = "ok"
                            THEN [moderations EXCEPT ![m] = NoModeration]
                            ELSE moderations
          /\ resp' = Response("moderation_delete", u, m, code)
    /\ UNCHANGED <<inflight, now, statuses, posts, comments, reports, engagements, reading>>

---------------------------------------------------------------------------
(* Deletion.  Every foreign key to Post and to Comment is on_delete=CASCADE *)

(* One level of the cascade only. *)
ChildrenOnly(S) == S \cup {d \in LiveComments : comments[d].parent \in S}

(* The comments the collector gathers from S: S and every comment whose    *)
(* parent is gathered.                                                      *)
RECURSIVE Subtree(_)
Subtree(S) ==
    LET next == S \cup {d \in LiveComments : comments[d].parent \in S}
    IN IF next = S THEN S ELSE Subtree(next)

CommentsAfterDelete(S) ==
    [c \in CommentIds |-> IF c \in Subtree(S) THEN NoComment ELSE comments[c]]

ModerationsAfterDelete(S) ==
    [m \in ModerationIds |->
        IF moderations[m].exists /\ moderations[m].comment \in Subtree(S)
        THEN NoModeration ELSE moderations[m]]

ReportsAfterDelete(S) ==
    [r \in ReportIds |->
        IF reports[r].exists /\ reports[r].comment \in Subtree(S)
        THEN NoReport ELSE reports[r]]

(* destroy of the two CommentViewSets.  content: whoever get_queryset      *)
(* shows the comment to; comments app: IsCommentAuthorOrReadOnly.          *)
CommentDeleteCode(u, c) ==
    IF u = Anonymous THEN "NotAuthenticated"
    ELSE IF AppOfComment(c) = "content"
         THEN IF CommentVisible(u, c) THEN "ok" ELSE "NotFound"
         ELSE IF comments[c].author = u THEN "ok" ELSE "Forbidden"

CommentDelete(u, c) ==
    /\ comments[c].exists
    /\ LET code == CommentDeleteCode(u, c)
           S == IF code = "ok" THEN {c} ELSE {}
       IN /\ comments' = CommentsAfterDelete(S)
          /\ moderations' = ModerationsAfterDelete(S)
          /\ reports' = ReportsAfterDelete(S)
          /\ resp' = Response("comment_delete", u, c, code)
    /\ UNCHANGED <<inflight, now, statuses, posts, engagements, reading>>

(* content PostViewSet.get_queryset for an authenticated caller. *)
PostVisible(u, p) ==
    /\ posts[p].exists
    /\ \/ u \in Staff
       \/ StatusIsPublished(posts[p].status)
       \/ posts[p].author = u

(* destroy of the two PostViewSets.  content: whoever get_queryset shows   *)
(* the post to; blog_app: IsAuthorOrReadOnly.                               *)
PostDeleteCode(u, p) ==
    IF u = Anonymous THEN "NotAuthenticated"
    ELSE IF posts[p].app = "content"
         THEN IF PostVisible(u, p) THEN "ok" ELSE "NotFound"
         ELSE IF posts[p].author = u THEN "ok" ELSE "Forbidden"

CommentsOfPost(p) == {c \in LiveComments : comments[c].post = p}

PostDelete(u, p) ==
    /\ posts[p].exists
    /\ LET code == PostDeleteCode(u, p)
           S == IF code = "ok" THEN CommentsOfPost(p) ELSE {}
       IN /\ posts' = IF code = "ok" THEN [posts EXCEPT ![p] = NoPost] ELSE posts
          /\ comments' = CommentsAfterDelete(S)
          /\ moderations' = ModerationsAfterDelete(S)
          /\ reports' = ReportsAfterDelete(S)
          /\ engagements' = [e \in EngagementIds |->
                                IF code = "ok" /\ engagements[e].exists
                                   /\ engagements[e].post = p
                                THEN NoEngagement ELSE engagements[e]]
          /\ resp' = Response("post_delete", u, p, code)
    /\ UNCHANGED <<inflight, now, statuses, reading>>

(* content PostViewSet.like: get_or_create stores the engagement row of    *)
(* the caller and the post; the handler then reads engagement.liked, an    *)
(* attribute PostEngagement does not have.                                  *)
LiveEngagements == {e \in EngagementIds : engagements[e].exists}
FreeEngagementIds == EngagementIds \ LiveEngagements
NewEngagementId == CHOOSE e \in FreeEngagementIds : \A f \in FreeEngagementIds : e <= f

HasEngagement(u, p) ==
    \E e \in LiveEngagements : engagements[e].user = u /\ engagements[e].post = p

LikeCode(u, p) ==
    IF u = Anonymous THEN "NotAuthenticated"
    ELSE IF ~PostVisible(u, p) THEN "NotFound"
    ELSE "ServerError"

Like(u, p) ==
    /\ posts[p].exists
    /\ posts[p].app = "content"
    /\ LET code == LikeCode(u, p)
           stores == code = "ServerError" /\ ~HasEngagement(u, p)
       IN /\ stores => FreeEngagementIds # {}
          /\ engagements' = IF stores
                            THEN [engagements EXCEPT ![NewEngagementId] =
                                     [exists |-> TRUE, post |-> p, user |-> u]]
                            ELSE engagements
          /\ resp' = Response("like", u, p, code)
    /\ UNCHANGED <<inflight, now, statuses, posts, comments, reports, moderations, reading>>

(* The log of a content comment is written, edited and deleted. *)
NextLog ==
    \/ Tick
    \/ \E u \in Users, c \in CommentIds, action \in ModerationActions :
          ModerationCreate(u, c, action)
    \/ \E u \in Staff, c \in CommentIds, action \in ModerationActions :
          AdminAddModeration(u, c, action)
    \/ \E u \in Users, m \in ModerationIds, action \in ModerationActions, reason \in Reasons :
          ModerationUpdate(u, m, action, reason)
    \/ \E u \in Users, m \in ModerationIds : ModerationDelete(u, m)
    \/ \E u \in Users, c \in CommentIds : CommentDelete(u, c)

SpecLog == InitResolution /\ [][NextLog]_vars

(* Threads of the content app with their reports, log entries and         *)
(* engagements are deleted.  A reply chain arises when update moves a      *)
(* comment under another one.                                               *)
Deleters == {"alice"}
ReportedComments == {3}
ModeratedComments == {2}

InitDeletion == InitThreads /\ posts[1].app = "content"

NextDeletion ==
    \/ \E u \in Commenters, p \in PostIds : CommentCreate("content", u, p, None)
    \/ \E u \in Commenters, c \in CommentIds, parent \in CommentIds :
          CommentUpdate(u, c, parent)
    \/ \E u \in Staff, c \in ReportedComments, reporter \in Commenters :
          AdminAddReport(u, c, reporter)
    \/ \E u \in Staff, c \in ModeratedComments : AdminAddModeration(u, c, "approved")
    \/ \E u \in Commenters, p \in PostIds : Like(u, p)
    \/ \E u \in Deleters, c \in CommentIds : CommentDelete(u, c)
    \/ \E u \in Deleters, p \in PostIds : PostDelete(u, p)

SpecDeletion == InitDeletion /\ [][NextDeletion]_vars

---------------------------------------------------------------------------
(* Posts are created, renamed and deleted with the slugs requests carry. *)
NextSlugs ==
    \/ \E app \in Apps, u \in Users, slug \in Slugs : PostCreate(app, u, None, slug)
    \/ \E u \in Users, p \in PostIds, slug \in Slugs :
          PostUpdate(u, p, posts[p].status, slug)
    \/ \E u \in Users, p \in PostIds : PostDelete(u, p)

SpecSlugs == Init /\ [][NextSlugs]_vars

---------------------------------------------------------------------------
(* Reading time.  A content is known by the number of words split() finds  *)
(* in it and by whether it is the empty string.                             *)

WordsPerMinute == 200

MaxOf(a, b) == IF a >= b THEN a ELSE b

(* Rounds the minutes up instead of down. *)
ReadingTimeRoundedUp(words) ==
    MaxOf(1, (words + WordsPerMinute - 1) \div WordsPerMinute)

(* content.Post.reading_time: max(1, word_count // 200) *)
ReadingTime(words) == MaxOf(1, words \div WordsPerMinute)

(* get_reading_time of blog_app's serializers: 1 for a content that is     *)
(* falsy, the same quotient otherwise.                                      *)
GetReadingTime(words, isEmpty) ==
    IF ~isEmpty THEN MaxOf(1, words \div WordsPerMinute) ELSE 1

InitReading ==
    /\ now = 1
    /\ statuses = SeedStatuses
    /\ posts = [p \in PostIds |-> NoPost]
    /\ comments = [c \in CommentIds |-> NoComment]
    /\ reports = [r \in ReportIds |-> NoReport]
    /\ moderations = [m \in ModerationIds |-> NoModeration]
    /\ engagements = [e \in EngagementIds |-> NoEngagement]
    /\ \E w \in 0..MaxWords : reading = [NoReading EXCEPT !.words = w]
    /\ inflight = [r \in RequestIds |-> NoRequest]
    /\ resp = NoResponse

ReadProperty ==
    /\ reading' = [reading EXCEPT !.by = "model",
                                  !.minutes = ReadingTime(reading.words)]
    /\ UNCHANGED <<inflight, now, statuses, posts, comments, reports, moderations, engagements, resp>>

ReadSerialized ==
    /\ \E isEmpty \in BOOLEAN :
          /\ isEmpty => reading.words = 0
          /\ reading' = [reading EXCEPT !.by = "serializer",
                                        !.minutes = GetReadingTime(reading.words, isEmpty)]
    /\ UNCHANGED <<inflight, now, statuses, posts, comments, reports, moderations, engagements, resp>>

NextReading == ReadProperty \/ ReadSerialized

SpecReading == InitReading /\ [][NextReading]_vars

---------------------------------------------------------------------------
(* Ownership *)

(* update of the comments app's CommentViewSet: IsCommentAuthorOrReadOnly  *)
(* lets the author alone through; CommentUpdateSerializer changes the      *)
(* content, which the comment record here does not carry.                   *)
BlogCommentUpdateCode(u, c) ==
    IF u = Anonymous THEN "NotAuthenticated"
    ELSE IF comments[c].author # u THEN "Forbidden"
    ELSE "ok"

BlogCommentUpdate(u, c) ==
    /\ comments[c].exists
    /\ AppOfComment(c) = "blog"
    /\ resp' = Response("comment_update", u, c, BlogCommentUpdateCode(u, c))
    /\ UNCHANGED <<inflight, now, statuses, posts, comments, reports, moderations, engagements, reading>>

(* Users write posts and comments and then change or delete each other's. *)
NextOwnership ==
    \/ \E app \in Apps, u \in Users, slug \in Slugs : PostCreate(app, u, None, slug)
    \/ \E app \in Apps, u \in Users, p \in FirstPost : CommentCreate(app, u, p, None)
    \/ \E u \in Users, p \in PostIds : PostUpdate(u, p, posts[p].status, posts[p].slug)
    \/ \E u \in Users, c \in CommentIds : CommentUpdate(u, c, None)
    \/ \E u \in Users, c \in CommentIds : BlogCommentUpdate(u, c)
    \/ \E u \in Users, c \in CommentIds : CommentDelete(u, c)
    \/ \E u \in Users, p \in PostIds : PostDelete(u, p)

SpecOwnership == InitThreads /\ [][NextOwnership]_vars

---------------------------------------------------------------------------
(* The posts a caller is shown *)

PostsOf(app) == {p \in PostIds : posts[p].exists /\ posts[p].app = app}

(* content PostViewSet.get_queryset *)
ContentPostQueryset(u) ==
    IF u = Anonymous
    THEN {p \in PostsOf("content") : StatusIsPublished(posts[p].status)}
    ELSE IF u \notin Staff
         THEN {p \in PostsOf("content") :
                  StatusIsPublished(posts[p].status) \/ posts[p].author = u}
         ELSE PostsOf("content")

(* blog_app PostViewSet.get_queryset: Post.objects ... .all() *)
BlogPostQueryset(u) == PostsOf("blog")

PostQueryset(app, u) ==
    IF app = "blog" THEN BlogPostQueryset(u) ELSE ContentPostQueryset(u)

(* blog_app.views.homepage *)
Homepage ==
    {p \in PostsOf("blog") :
        StatusIsPublished(posts[p].status) /\ posts[p].published_at # None}

---------------------------------------------------------------------------
(* Listing the status registry *)

SortOrders == {1, 2}

(* The place of a name in the order the database sorts names in. *)
NameRank(n) ==
    IF n = "Draft" THEN 1
    ELSE IF n = "Published" THEN 2
    ELSE IF n = "draft" THEN 3
    ELSE IF n = "published" THEN 4
    ELSE 0

(* The is_active box and the sort_order field of PostStatusAdmin. *)
AdminSetStatusActive(u, s, b) ==
    /\ u \in Staff
    /\ statuses[s].exists
    /\ statuses[s].is_active # b
    /\ statuses' = [statuses EXCEPT ![s].is_active = b]
    /\ resp' = Response("admin_status_active", u, s, "ok")
    /\ UNCHANGED <<inflight, now, posts, comments, reports, moderations, engagements, reading>>

AdminSetSortOrder(u, s, k) ==
    /\ u \in Staff
    /\ statuses[s].exists
    /\ statuses[s].sort_order # k
    /\ statuses' = [statuses EXCEPT ![s].sort_order = k]
    /\ resp' = Response("admin_status_order", u, s, "ok")
    /\ UNCHANGED <<inflight, now, posts, comments, reports, moderations, engagements, reading>>

(* PostStatus.Meta.ordering = ['sort_order', 'name'] *)
MetaOrdered(q) ==
    \A i, j \in DOMAIN q :
        i < j =>
            \/ statuses[q[i]].sort_order < statuses[q[j]].sort_order
            \/ /\ statuses[q[i]].sort_order = statuses[q[j]].sort_order
               /\ NameRank(statuses[q[i]].name) <= NameRank(statuses[q[j]].name)

(* OrderingFilter with ordering = ['name'] *)
NameOrdered(q) ==
    \A i, j \in DOMAIN q :
        i < j => NameRank(statuses[q[i]].name) <= NameRank(statuses[q[j]].name)

(* content PostStatusViewSet: PostStatus.objects.filter(is_active=True);   *)
(* the view names no filter backend, so the rows come in Meta.ordering.     *)
ContentStatusList ==
    {q \in SeqsOver({s \in ExistingStatuses : statuses[s].is_active}) : MetaOrdered(q)}

(* blog_app PostStatusViewSet: PostStatus.objects.all() through            *)
(* OrderingFilter with ordering = ['name'].                                 *)
BlogStatusList ==
    {q \in SeqsOver(ExistingStatuses) : NameOrdered(q)}

StatusListOf(app) == IF app = "blog" THEN BlogStatusList ELSE ContentStatusList

(* GET on the list route of either PostStatusViewSet (AllowAny /           *)
(* IsAuthenticatedOrReadOnly): a read.                                      *)
StatusList(app, u) ==
    /\ resp' = Response("list_statuses_" \o app, u, None, "ok")
    /\ UNCHANGED <<inflight, now, statuses, posts, comments, reports, moderations, engagements, reading>>

NextRegistry ==
    \/ \E u \in Staff, s \in StatusIds, b \in BOOLEAN : AdminSetStatusActive(u, s, b)
    \/ \E u \in Staff, s \in StatusIds, k \in SortOrders : AdminSetSortOrder(u, s, k)
    \/ \E u \in Staff, s \in StatusIds : \E n \in NameChoices(s) : AdminRenameStatus(u, s, n)
    \/ \E u \in Staff, s \in StatusIds : AdminDeleteStatus(u, s)
    \/ \E app \in Apps, u \in Actors : StatusList(app, u)

SpecRegistry == Init /\ [][NextRegistry]_vars

---------------------------------------------------------------------------
(* Requests served side by side.  A handler of the content app runs one    *)
(* database statement at a time; statements of different requests          *)
(* interleave.  Each request slot serves one request.                       *)

Begun(r, kind, u, app, id, slug, code) ==
    [kind |-> kind, actor |-> u, app |-> app, id |-> id, slug |-> slug,
     reporter |-> "nobody",
     pc |-> IF code = "ok" THEN "fetched" ELSE "done",
     code |-> IF code = "ok" THEN "none" ELSE code]

Finished(req, code) == [req EXCEPT !.pc = "done", !.code = code]

(* PostViewSet.retrieve: get_object on get_queryset. *)
RetrieveCode(u, p) ==
    IF p \in ContentPostQueryset(u) THEN "ok" ELSE "NotFound"

BeginRetrieve(r, u, p) ==
    /\ inflight[r].kind = "none"
    /\ posts[p].exists /\ posts[p].app = "content"
    /\ LET code == RetrieveCode(u, p)
       IN /\ inflight' = [inflight EXCEPT ![r] =
                             Begun(r, "retrieve", u, "content", p, EmptySlug, code)]
          /\ resp' = IF code = "ok" THEN resp ELSE Response("retrieve", u, p, code)
    /\ UNCHANGED <<now, statuses, posts, comments, reports, moderations, engagements, reading>>

(* ... .update(view_count=F('view_count') + 1): the database adds one to   *)
(* the value the row holds when the statement runs.                         *)
RetrieveCount(r) ==
    /\ inflight[r].kind = "retrieve" /\ inflight[r].pc = "fetched"
    /\ LET p == inflight[r].id
       IN /\ posts' = [posts EXCEPT ![p].view_count = @ + 1]
          /\ inflight' = [inflight EXCEPT ![r] = Finished(@, "ok")]
          /\ resp' = Response("retrieve", inflight[r].actor, p, "ok")
    /\ UNCHANGED <<now, statuses, comments, reports, moderations, engagements, reading>>

(* PostViewSet.like up to get_or_create. *)
BeginLike(r, u, p) ==
    /\ inflight[r].kind = "none"
    /\ posts[p].exists /\ posts[p].app = "content"
    /\ LET code == IF LikeCode(u, p) = "ServerError" THEN "ok" ELSE LikeCode(u, p)
       IN /\ inflight' = [inflight EXCEPT ![r] =
                             Begun(r, "like", u, "content", p, EmptySlug, code)]
          /\ resp' = IF code = "ok" THEN resp ELSE Response("like", u, p, code)
    /\ UNCHANGED <<now, statuses, posts, comments, reports, moderations, engagements, reading>>

(* get_or_create stores the row when there is none; reading                *)
(* engagement.liked then raises and the counter statements are not run.    *)
LikeEngage(r) ==
    /\ inflight[r].kind = "like" /\ inflight[r].pc = "fetched"
    /\ LET p == inflight[r].id
           u == inflight[r].actor
           stores == ~HasEngagement(u, p)
       IN /\ stores => FreeEngagementIds # {}
          /\ engagements' = IF stores
                            THEN [engagements EXCEPT ![NewEngagementId] =
                                     [exists |-> TRUE, post |-> p, user |-> u]]
                            ELSE engagements
          /\ inflight' = [inflight EXCEPT ![r] = Finished(@, "ServerError")]
          /\ resp' = Response("like", u, p, "ServerError")
    /\ UNCHANGED <<now, statuses, posts, comments, reports, moderations, reading>>

(* CommentViewSet.approve: the staff test and get_object. *)
ApproveCode(u, c) ==
    IF u = Anonymous THEN "NotAuthenticated"
    ELSE IF u \notin Staff THEN "Forbidden"
    ELSE "ok"

BeginApprove(r, u, c) ==
    /\ inflight[r].kind = "none"
    /\ comments[c].exists /\ AppOfComment(c) = "content"
    /\ LET code == ApproveCode(u, c)
       IN /\ inflight' = [inflight EXCEPT ![r] =
                             Begun(r, "approve", u, "content", c, EmptySlug, code)]
          /\ resp' = IF code = "ok" THEN resp ELSE Response("approve", u, c, code)
    /\ UNCHANGED <<now, statuses, posts, comments, reports, moderations, engagements, reading>>

(* comment.is_approved = True; comment.save() *)
ApproveSave(r) ==
    /\ inflight[r].kind = "approve" /\ inflight[r].pc = "fetched"
    /\ comments' = [comments EXCEPT ![inflight[r].id].is_approved = TRUE]
    /\ inflight' = [inflight EXCEPT ![r].pc = "saved"]
    /\ UNCHANGED <<now, statuses, posts, reports, moderations, engagements, reading, resp>>

(* ... .update(comment_count=F('comment_count') + 1) *)
ApproveCount(r) ==
    /\ inflight[r].kind = "approve" /\ inflight[r].pc = "saved"
    /\ LET c == inflight[r].id
       IN /\ posts' = [posts EXCEPT ![comments[c].post].comment_count = @ + 1]
          /\ inflight' = [inflight EXCEPT ![r] = Finished(@, "ok")]
          /\ resp' = Response("approve", inflight[r].actor, c, "ok")
    /\ UNCHANGED <<now, statuses, comments, reports, moderations, engagements, reading>>

FirstComment == {1}

NextCounters ==
    \/ \E r \in RequestIds, u \in Actors, p \in FirstPost : BeginRetrieve(r, u, p)
    \/ \E r \in RequestIds : RetrieveCount(r)
    \/ \E r \in RequestIds, u \in Actors, p \in FirstPost : BeginLike(r, u, p)
    \/ \E r \in RequestIds : LikeEngage(r)
    \/ \E r \in RequestIds, u \in Actors, c \in FirstComment : BeginApprove(r, u, c)
    \/ \E r \in RequestIds : ApproveSave(r)
    \/ \E r \in RequestIds : ApproveCount(r)

SpecCounters == InitResolution /\ [][NextCounters]_vars

---------------------------------------------------------------------------
(* Creations served side by side: the serializer or form validates, then   *)
(* the INSERT runs; statements of other requests may come in between.      *)

(* PostViewSet.create up to the INSERT.  blog_app: validate_slug looks for *)
(* a post with the slug.  content: the serializer has no slug to check.    *)
PostValidateCode(app, slug) ==
    IF app = "blog" /\ SlugTaken("blog", slug, None) THEN "DuplicateSlug" ELSE "ok"

BeginPostCreate(r, app, u, slug) ==
    /\ inflight[r].kind = "none"
    /\ LET code == PostValidateCode(app, slug)
       IN /\ inflight' = [inflight EXCEPT ![r] =
                             Begun(r, "post_create", u, app, None, slug, code)]
          /\ resp' = IF code = "ok" THEN resp ELSE Response("create", u, None, code)
    /\ UNCHANGED <<now, statuses, posts, comments, reports, moderations, engagements, reading>>

(* Post.objects.create of the validated data: the unique index refuses    *)
(* a second row with the slug; the IntegrityError is not caught.            *)
PostInsertCode(app, slug) ==
    IF SlugTaken(app, StoredSlug(app, slug), None) THEN "ServerError" ELSE "ok"

PostInsert(r) ==
    /\ inflight[r].kind = "post_create" /\ inflight[r].pc = "fetched"
    /\ LET req == inflight[r]
           code == PostInsertCode(req.app, req.slug)
           rec == SaveOf(req.app, [exists |-> TRUE, app |-> req.app,
                                   author |-> req.actor,
                                   slug |-> StoredSlug(req.app, req.slug),
                                   status |-> None, published_at |-> None,
                                   comment_count |-> 0,
                                   view_count |-> 0, like_count |-> 0])
       IN /\ code = "ok" => FreePostIds # {}
          /\ posts' = IF code = "ok" THEN [posts EXCEPT ![NewPostId] = rec] ELSE posts
          /\ inflight' = [inflight EXCEPT ![r] =
                             [Finished(@, code) EXCEPT
                                 !.id = IF code = "ok" THEN NewPostId ELSE None]]
          /\ resp' = Response("create", req.actor,
                              IF code = "ok" THEN NewPostId ELSE None, code)
    /\ UNCHANGED <<now, statuses, comments, reports, moderations, engagements, reading>>

(* CommentReportViewSet.create up to the INSERT: comment and reporter are  *)
(* read-only in the serializer, so no uniqueness validator runs.            *)
BeginReport(r, u, c) ==
    /\ inflight[r].kind = "none"
    /\ comments[c].exists /\ AppOfComment(c) = "content"
    /\ LET code == IF u = Anonymous THEN "NotAuthenticated" ELSE "ok"
       IN /\ inflight' = [inflight EXCEPT ![r] =
                             [Begun(r, "report", u, "content", c, EmptySlug, code)
                                 EXCEPT !.reporter = u]]
          /\ resp' = IF code = "ok" THEN resp ELSE Response("report", u, c, code)
    /\ UNCHANGED <<now, statuses, posts, comments, reports, moderations, engagements, reading>>

ReportInsert(r) ==
    /\ inflight[r].kind = "report" /\ inflight[r].pc = "fetched"
    /\ LET req == inflight[r]
           data == ReportValidatedData(req.actor, req.id)
           code == ReportInsertCode(data)
       IN /\ code = "created" => FreeReportIds # {}
          /\ reports' = IF code = "created"
                        THEN [reports EXCEPT ![NewReportId] =
                                 NewReport(data.comment, data.reporter)]
                        ELSE reports
          /\ inflight' = [inflight EXCEPT ![r] = Finished(@, code)]
          /\ resp' = Response("report", req.actor, req.id, code)
    /\ UNCHANGED <<now, statuses, posts, comments, moderations, engagements, reading>>

(* The add form of CommentReportAdmin: validate_unique, then save. *)
BeginAdminAddReport(r, u, c, reporter) ==
    /\ inflight[r].kind = "none"
    /\ u \in Staff
    /\ comments[c].exists /\ AppOfComment(c) = "content"
    /\ LET code == IF AdminAddReportCode(c, reporter) = "created" THEN "ok"
                   ELSE AdminAddReportCode(c, reporter)
       IN /\ inflight' = [inflight EXCEPT ![r] =
                             [Begun(r, "admin_report", u, "content", c, EmptySlug, code)
                                 EXCEPT !.reporter = reporter]]
          /\ resp' = IF code = "ok" THEN resp ELSE Response("admin_report", u, c, code)
    /\ UNCHANGED <<now, statuses, posts, comments, reports, moderations, engagements, reading>>

AdminInsertReport(r) ==
    /\ inflight[r].kind = "admin_report" /\ inflight[r].pc = "fetched"
    /\ LET req == inflight[r]
           code == ReportInsertCode([comment |-> req.id, reporter |-> req.reporter])
       IN /\ code = "created" => FreeReportIds # {}
          /\ reports' = IF code = "created"
                        THEN [reports EXCEPT ![NewReportId] = NewReport(req.id, req.reporter)]
                        ELSE reports
          /\ inflight' = [inflight EXCEPT ![r] = Finished(@, code)]
          /\ resp' = Response("admin_report", req.actor, req.id, code)
    /\ UNCHANGED <<now, statuses, posts, comments, moderations, engagements, reading>>

(* Either no post exists yet, or two content posts and a comment do. *)
InitRaces ==
    /\ now = 1
    /\ statuses = SeedStatuses
    /\ \/ /\ posts = [p \in PostIds |-> NoPost]
          /\ comments = [c \in CommentIds |-> NoComment]
       \/ /\ posts = [p \in PostIds |->
                         IF p = 1 THEN ThreadPost("content", "a")
                         ELSE IF p = 2 THEN ThreadPost("content", "b")
                         ELSE NoPost]
          /\ comments = [c \in CommentIds |->
                            IF c = 1 THEN NewComment("alice", 1, None) ELSE NoComment]
    /\ reports = [r \in ReportIds |-> NoReport]
    /\ moderations = [m \in ModerationIds |-> NoModeration]
    /\ engagements = [e \in EngagementIds |-> NoEngagement]
    /\ reading = NoReading
    /\ inflight = [r \in RequestIds |-> NoRequest]
    /\ resp = NoResponse

NextRaces ==
    \/ \E r \in RequestIds, app \in Apps, u \in Commenters, slug \in Slugs :
          BeginPostCreate(r, app, u, slug)
    \/ \E r \in RequestIds : PostInsert(r)
    \/ \E r \in RequestIds, u \in Commenters, c \in FirstComment : BeginReport(r, u, c)
    \/ \E r \in RequestIds : ReportInsert(r)
    \/ \E r \in RequestIds, u \in Staff, c \in FirstComment, reporter \in Commenters :
          BeginAdminAddReport(r, u, c, reporter)
    \/ \E r \in RequestIds : AdminInsertReport(r)

SpecRaces == InitRaces /\ [][NextRaces]_vars

---------------------------------------------------------------------------
(* Properties of the post lifecycle *)

SaveOps == {"create", "update", "publish", "unpublish"}

C2_PublishUnpublishScenario ==
    [][ \A p \in PostIds :
          /\ (/\ statuses = SeedStatuses
              /\ posts[p].exists /\ posts[p].status = 1
              /\ posts[p].published_at = None /\ ~IsPublished(p)
              /\ Publish(posts[p].author, p))
                => /\ posts'[p].status = 2
                   /\ posts'[p].published_at = now
                   /\ BlogIsPublished(posts'[p])
          /\ (/\ statuses = SeedStatuses
              /\ resp = Response("publish", posts[p].author, p, "ok")
              /\ Unpublish(posts[p].author, p))
                => /\ posts'[p].status # None
                   /\ ~statuses[posts'[p].status].is_published
                   /\ posts'[p].published_at = None
                   /\ ~BlogIsPublished(posts'[p])
      ]_vars

(* C3: a publish call, or any other save, on a post that is in a           *)
(* published-type status with published_at set and that stays in a         *)
(* published-type status leaves published_at as it was.                     *)
C3_RepublishKeepsPublishedAt ==
    [][ \A p \in PostIds :
          (/\ posts[p].exists
           /\ StatusIsPublished(posts[p].status)
           /\ posts[p].published_at # None
           /\ \/ \E u \in Actors : Publish(u, p)
              \/ \E u \in Users, s \in MayGiveStatus :
                    PostUpdate(u, p, s, posts[p].slug)
           /\ posts'[p].status # None
           /\ statuses[posts'[p].status].is_published)
             => posts'[p].published_at = posts[p].published_at
      ]_vars

(* C4: whatever the registry holds, publish by the author answers          *)
(* InvalidTransition exactly when the post's status is published-type, and *)
(* unpublish exactly when it is not (a post without a status included).    *)
C4_InvalidTransitionIffFlag ==
    \A p \in PostIds :
        (posts[p].exists /\ posts[p].app = "blog") =>
            /\ PublishCode(posts[p].author, p) = "InvalidTransition"
                  <=> StatusIsPublished(posts[p].status)
            /\ UnpublishCode(posts[p].author, p) = "InvalidTransition"
                  <=> ~StatusIsPublished(posts[p].status)

(* C5 as stated: publish and unpublish answer Forbidden exactly to the     *)
(* authenticated actors that are neither the author nor staff.              *)
C5_AuthorOrStaff ==
    (resp.op \in {"publish", "unpublish"} /\ resp.actor # Anonymous) =>
        (resp.code = "Forbidden"
            <=> (resp.actor # posts[resp.id].author /\ resp.actor \notin Staff))

(* C5: publish and unpublish answer Forbidden exactly to the authenticated *)
(* actors other than the post's author, staff included; the author is      *)
(* never answered Forbidden.                                                *)
C5_AuthorOnly ==
    (resp.op \in {"publish", "unpublish"} /\ resp.actor # Anonymous) =>
        (resp.code = "Forbidden" <=> resp.actor # posts[resp.id].author)

(* A staff member who is not the author has been refused. *)
C5_Witness ==
    /\ resp.op = "publish"
    /\ resp.actor \in Staff
    /\ resp.actor # posts[resp.id].author
    /\ resp.code = "Forbidden"

(* C6: for every post, is_published is true exactly when the post has a    *)
(* status, the status is published-type, published_at is set and           *)
(* published_at <= now.                                                     *)
C6_IsPublishedDerived ==
    \A p \in PostIds :
        posts[p].exists =>
            (IsPublished(p) <=>
                /\ posts[p].status # None
                /\ statuses[posts[p].status].is_published
                /\ posts[p].published_at # None
                /\ posts[p].published_at <= now)

---------------------------------------------------------------------------
(* Properties of comment threads *)

(* C7: every comment that has a parent is on the post of its parent. *)
C7_ParentOnSamePost ==
    \A c \in CommentIds :
        (comments[c].exists /\ comments[c].parent # None) =>
            comments[c].post = comments[comments[c].parent].post

(* C8: creating a comment whose parent is a comment on the same post       *)
(* succeeds and stores the comment with that parent and that post, so that *)
(* it is listed among the parent's replies.                                 *)
C8_SamePostReplyCreated ==
    [][ \A app \in Apps, u \in Users, p \in PostIds, parent \in CommentIds :
          (/\ posts[p].exists /\ posts[p].app = app
           /\ comments[parent].exists /\ comments[parent].post = p
           /\ CommentCreate(app, u, p, parent))
             => /\ resp'.code = "created"
                /\ comments'[resp'.id].exists
                /\ comments'[resp'.id].parent = parent
                /\ comments'[resp'.id].post = p
      ]_vars

C10_ReportOncePerReporter ==
    [][ /\ \A u \in Users, c \in CommentIds :
              ReportCreate(u, c) =>
                  IF HasReport(c, u)
                  THEN resp'.code = "DuplicateReport" /\ reports' = reports
                  ELSE /\ resp'.code = "created"
                       /\ \E r \in ReportIds :
                             /\ ~reports[r].exists
                             /\ reports'[r] = NewReport(c, u)
        /\ \A r, q \in ReportIds :
              (reports'[r].exists /\ reports'[q].exists
                  /\ reports'[r].comment = reports'[q].comment
                  /\ reports'[r].reporter = reports'[q].reporter) => r = q
      ]_vars

---------------------------------------------------------------------------
(* Properties of the report workflow *)

StatusRank(st) ==
    IF st = "pending" THEN 1 ELSE IF st = "under_review" THEN 2 ELSE 3

(* C11: resolveReport by staff on a report that is already resolved or     *)
(* dismissed answers AlreadyResolved and leaves the report as it was.      *)
C11_ResolveTerminalRefused ==
    [][ \A u \in Staff, r \in ReportIds, notes \in Notes :
          (reports[r].exists /\ reports[r].status \in TerminalStatuses
              /\ Resolve(u, r, notes))
            => /\ resp'.code = "AlreadyResolved"
               /\ reports'[r] = reports[r]
      ]_vars

(* C12: no step moves a report to an earlier status, and no step changes   *)
(* the status of a report that is resolved or dismissed.                    *)
C12_StatusOnlyForward ==
    [][ \A r \in ReportIds :
          (reports[r].exists /\ reports'[r].exists) =>
              /\ StatusRank(reports'[r].status) >= StatusRank(reports[r].status)
              /\ reports[r].status \in TerminalStatuses
                    => reports'[r].status = reports[r].status
      ]_vars

(* C13: resolveReport by a non-staff actor answers Forbidden; a report     *)
(* enters resolved or dismissed only in a step of a staff actor, which     *)
(* stamps resolved_at with the current time and resolved_by with the actor *)
C13_OnlyStaffCloses ==
    [][ /\ \A u \in Users \ Staff, r \in ReportIds, notes \in Notes :
              Resolve(u, r, notes) => resp'.code = "Forbidden" /\ reports' = reports
        /\ \A r \in ReportIds :
              (/\ reports'[r].exists
               /\ reports'[r].status \in TerminalStatuses
               /\ reports'[r].status # reports[r].status)
                => /\ resp'.actor \in Staff
                   /\ reports'[r].resolved_at = now
                   /\ reports'[r].resolved_by = resp'.actor
      ]_vars

---------------------------------------------------------------------------
(* Properties of moderation *)

(* C14: approve and reject by a non-staff user answer Forbidden and leave  *)
(* the comments as they were; by a staff actor they set is_approved (true  *)
(* for approve, false for reject) and append exactly one moderation entry  *)
(* for that comment and moderator with the action approved / rejected.     *)
C14_ModerationLogged ==
    [][ \A u \in Users, c \in CommentIds :
          (Approve(u, c) \/ ContentApprove(u, c) \/ Reject(u, c)) =>
              IF u \in Staff
              THEN /\ comments'[c].is_approved = (resp'.op = "approve")
                   /\ \E m \in ModerationIds :
                         /\ ~moderations[m].exists
                         /\ moderations'[m].exists
                         /\ moderations'[m].comment = c
                         /\ moderations'[m].moderator = u
                         /\ moderations'[m].action =
                               (IF resp'.op = "approve" THEN "approved" ELSE "rejected")
                         /\ \A n \in ModerationIds \ {m} :
                               moderations'[n] = moderations[n]
              ELSE /\ resp'.code = "Forbidden"
                   /\ comments' = comments
      ]_vars

(* C16 as stated: flag by any authenticated user sets is_flagged, flag by  *)
(* an unauthenticated actor changes nothing, and is_flagged goes from true *)
(* to false only in a step of a staff actor.                                *)
C16_AnyUserFlags ==
    [][ /\ \A u \in Users, c \in CommentIds :
              Flag(u, c) => resp'.code = "ok" /\ comments'[c].is_flagged
        /\ \A c \in CommentIds :
              Flag(Anonymous, c) => resp'.code # "ok" /\ comments' = comments
        /\ \A c \in CommentIds :
              (comments[c].exists /\ comments[c].is_flagged
                  /\ comments'[c].exists /\ ~comments'[c].is_flagged)
                => resp'.actor \in Staff
      ]_vars

(* C16: flag by an authenticated user sets is_flagged on a comment the     *)
(* user can see (staff: any comment, others: approved comments) and        *)
(* answers NotFound, changing nothing, on a comment the user cannot see;   *)
(* flag by an unauthenticated actor changes nothing; is_flagged goes from  *)
(* true to false only in a step of a staff actor.                           *)
C16_VisibleCommentFlagged ==
    [][ /\ \A u \in Users, c \in CommentIds :
              Flag(u, c) =>
                  IF CommentVisible(u, c)
                  THEN resp'.code = "ok" /\ comments'[c].is_flagged
                  ELSE resp'.code = "NotFound" /\ comments' = comments
        /\ \A c \in CommentIds :
              Flag(Anonymous, c) => resp'.code # "ok" /\ comments' = comments
        /\ \A c \in CommentIds :
              (comments[c].exists /\ comments[c].is_flagged
                  /\ comments'[c].exists /\ ~comments'[c].is_flagged)
                => resp'.actor \in Staff
      ]_vars

(* A user who is not staff has flagged an approved comment while another   *)
(* comment is unapproved.                                                   *)
C16_Witness ==
    /\ resp.op = "flag" /\ resp.code = "ok" /\ resp.actor \notin Staff
    /\ comments[resp.id].is_flagged /\ comments[resp.id].is_approved
    /\ \E d \in CommentIds : comments[d].exists /\ ~comments[d].is_approved

---------------------------------------------------------------------------
(* Properties of the moderation log and of deletion *)

(* C15: the moderation log is append-only: no step changes the comment,    *)
(* moderator, action, reason or timestamp of an existing entry, and an     *)
(* entry disappears only in a step that deletes its comment.                *)
C15_LogAppendOnly ==
    [][ \A m \in ModerationIds :
          moderations[m].exists =>
              \/ moderations'[m] = moderations[m]
              \/ /\ ~moderations'[m].exists
                 /\ ~comments'[moderations[m].comment].exists
      ]_vars

(* C20: in every state each remaining comment refers to an existing post   *)
(* and, when it has a parent, to an existing parent; each moderation entry *)
(* and each report refers to an existing comment; each engagement refers   *)
(* to an existing post.                                                     *)
C20_NoDanglingReferences ==
    /\ \A c \in CommentIds :
          comments[c].exists =>
              /\ posts[comments[c].post].exists
              /\ comments[c].parent # None => comments[comments[c].parent].exists
    /\ \A m \in ModerationIds :
          moderations[m].exists => comments[moderations[m].comment].exists
    /\ \A r \in ReportIds :
          reports[r].exists => comments[reports[r].comment].exists
    /\ \A e \in EngagementIds :
          engagements[e].exists => posts[engagements[e].post].exists

(* Post 1 has just been deleted.  Comment 3, created while comments 1 and  *)
(* 2 existed, remains on post 2 with the report about it; comments 1 and 2 *)
(* and every log entry are gone, and so is every engagement with post 1.   *)
C20_Witness ==
    /\ resp.op = "post_delete" /\ resp.code = "ok" /\ resp.id = 1
    /\ ~posts[1].exists /\ posts[2].exists
    /\ LiveComments = {3} /\ comments[3].post = 2
    /\ \E r \in ReportIds : reports[r].exists /\ reports[r].comment = 3
    /\ LiveModerations = {}
    /\ \E e \in EngagementIds : engagements[e].exists /\ engagements[e].post = 2

---------------------------------------------------------------------------
(* Properties of saving a post *)

(* C18: a create or an update that saves a post with no status succeeds    *)
(* and stores the active status with slug draft when the registry has one, *)
(* and no status otherwise; the saved post is not published.                *)
C18_DefaultStatusOnSave ==
    [][ \A u \in Users, p \in PostIds :
          (\/ \E app \in Apps, slug \in Slugs :
                 PostCreate(app, u, None, slug) /\ NewPostId = p
           \/ PostUpdate(u, p, None, posts[p].slug) /\ UpdateCode(u, p) = "ok")
          => /\ resp'.code = "ok"
             /\ posts'[p].exists
             /\ posts'[p].status = DefaultStatus
             /\ ~(IsPublished(p))'
      ]_vars

(* C17: a create or an update that asks for a slug another post of the    *)
(* app holds answers DuplicateSlug and stores nothing; otherwise it stores *)
(* exactly the slug asked for, a post's own slug included; and no two      *)
(* posts of an app ever share a slug.                                       *)
C17_SlugsUniqueAndKept ==
    [][ /\ \A app \in Apps, u \in Users, slug \in Slugs :
              PostCreate(app, u, None, slug) =>
                  IF \E q \in PostIds : /\ posts[q].exists /\ posts[q].app = app
                                        /\ posts[q].slug = slug
                  THEN resp'.code = "DuplicateSlug" /\ posts' = posts
                  ELSE /\ resp'.code = "ok"
                       /\ posts'[resp'.id].slug = slug
        /\ \A u \in Users, p \in PostIds, slug \in Slugs :
              (PostUpdate(u, p, posts[p].status, slug) /\ UpdateCode(u, p) = "ok") =>
                  IF \E q \in PostIds \ {p} : /\ posts[q].exists
                                              /\ posts[q].app = posts[p].app
                                              /\ posts[q].slug = slug
                  THEN resp'.code = "DuplicateSlug" /\ posts' = posts
                  ELSE resp'.code = "ok" /\ posts'[p].slug = slug
        /\ \A p, q \in PostIds :
              (p # q /\ posts'[p].exists /\ posts'[q].exists
                     /\ posts'[p].app = posts'[q].app)
                => posts'[p].slug # posts'[q].slug
      ]_vars

---------------------------------------------------------------------------
(* Properties of the reading time *)

(* C19: the reading time either implementation reports for a content of W  *)
(* words is the larger of 1 and the whole number of 200-word minutes in W: *)
(* 1 for no words, 1 for 250 words, 2 for 400 words.                        *)
C19_ReadingTimeFloorAtLeastOne ==
    reading.by # "none" =>
        LET W == reading.words
            whole == CHOOSE m \in 0..W : 200 * m <= W /\ W < 200 * (m + 1)
        IN /\ reading.minutes = (IF whole < 1 THEN 1 ELSE whole)
           /\ W = 0 => reading.minutes = 1
           /\ W = 250 => reading.minutes = 1
           /\ W = 400 => reading.minutes = 2

(* A serializer has reported 2 minutes for a content of 400 words. *)
C19_Witness ==
    reading.by = "serializer" /\ reading.words = 400 /\ reading.minutes = 2

---------------------------------------------------------------------------
(* Properties of comments and of visibility *)

(* C21: a comment created with no parent and no approval value is stored   *)
(* unapproved, unflagged, with like_count 0 and no parent.                  *)
C21_NewCommentUnapproved ==
    [][ \A app \in Apps, u \in Users, p \in PostIds, c \in CommentIds :
          (CommentCreate(app, u, p, None) /\ resp'.code = "created" /\ resp'.id = c)
          => /\ ~comments'[c].is_approved
             /\ ~comments'[c].is_flagged
             /\ comments'[c].like_count = 0
             /\ comments'[c].parent = None
      ]_vars

(* C22: an update or a delete of a post or of a comment by a user who is   *)
(* neither its author nor staff is refused and changes no post and no      *)
(* comment.                                                                 *)
C22_OthersCannotModify ==
    [][ \A u \in Users \ Staff :
          /\ \A c \in CommentIds :
                (/\ comments[c].exists /\ comments[c].author # u
                 /\ \/ CommentUpdate(u, c, None)
                    \/ BlogCommentUpdate(u, c)
                    \/ CommentDelete(u, c))
                => resp'.code # "ok" /\ comments' = comments
          /\ \A p \in PostIds :
                (/\ posts[p].exists /\ posts[p].author # u
                 /\ \/ PostUpdate(u, p, posts[p].status, posts[p].slug)
                    \/ PostDelete(u, p))
                => resp'.code # "ok" /\ posts' = posts /\ comments' = comments
      ]_vars

(* C23: the posts an anonymous caller is shown are all in a status with    *)
(* is_published; the posts a user who is not staff is shown are each in    *)
(* such a status or written by that user; staff are shown every post.      *)
C23_PostVisibility ==
    /\ \A p \in Homepage : StatusIsPublished(posts[p].status)
    /\ \A app \in Apps :
          /\ \A p \in PostQueryset(app, Anonymous) : StatusIsPublished(posts[p].status)
          /\ \A u \in Users \ Staff : \A p \in PostQueryset(app, u) :
                StatusIsPublished(posts[p].status) \/ posts[p].author = u
          /\ \A u \in Staff : PostQueryset(app, u) = PostsOf(app)

(* C24: listing the registry changes nothing in it and returns the active *)
(* statuses and no others, each once, by sort_order ascending and, within  *)
(* one sort_order, by name ascending.                                       *)
C24_ListActiveOrdered ==
    [][ \A app \in Apps, u \in Actors :
          StatusList(app, u) =>
              /\ statuses' = statuses
              /\ StatusListOf(app) # {}
              /\ \A q \in StatusListOf(app) :
                    /\ {q[i] : i \in DOMAIN q}
                          = {s \in StatusIds : statuses[s].exists /\ statuses[s].is_active}
                    /\ \A i, j \in DOMAIN q :
                          i < j =>
                             /\ q[i] # q[j]
                             /\ statuses[q[i]].sort_order <= statuses[q[j]].sort_order
                             /\ statuses[q[i]].sort_order = statuses[q[j]].sort_order
                                   => NameRank(statuses[q[i]].name)
                                         < NameRank(statuses[q[j]].name)
      ]_vars

---------------------------------------------------------------------------
(* Properties of requests served side by side *)

Completed(kind, p) ==
    {r \in RequestIds : /\ inflight[r].kind = kind /\ inflight[r].pc = "done"
                        /\ inflight[r].code = "ok"
                        /\ (IF kind = "approve" THEN comments[inflight[r].id].post
                            ELSE inflight[r].id) = p}

C26_UniqueUnderRaces ==
    \A r, q \in RequestIds :
        (r # q /\ inflight[r].pc = "done" /\ inflight[q].pc = "done") =>
            /\ (/\ inflight[r].kind = "post_create" /\ inflight[q].kind = "post_create"
                /\ inflight[r].app = inflight[q].app
                /\ inflight[r].slug = inflight[q].slug
                /\ inflight[r].code = "ok")
               => inflight[q].code = "DuplicateSlug"
            /\ (/\ inflight[r].kind \in {"report", "admin_report"}
                /\ inflight[q].kind \in {"report", "admin_report"}
                /\ inflight[r].id = inflight[q].id
                /\ inflight[r].reporter = inflight[q].reporter
                /\ inflight[r].code = "created")
               => inflight[q].code = "DuplicateReport"

---------------------------------------------------------------------------
(* Properties of the parent relation *)

(* The comments reached from c by following parent at least once, in the  *)
(* comment table cm.                                                        *)
Ancestors(cm, c) ==
    LET up(S) == {cm[d].parent : d \in S} \ {None}
        RECURSIVE climb(_, _)
        climb(S, n) == IF n = 0 THEN S ELSE climb(S \cup up(S), n - 1)
    IN climb(up({c}), MaxComments)

(* C27: no step changes the parent of an existing comment, and after every *)
(* step no comment is its own parent or ancestor.                           *)
C27_NoReparenting ==
    [][ \A c \in CommentIds :
          /\ (comments[c].exists /\ comments'[c].exists)
                => comments'[c].parent = comments[c].parent
          /\ comments'[c].exists => c \notin Ancestors(comments', c)
      ]_vars

---------------------------------------------------------------------------
(* Properties of the fields of reports and of counters *)

(* C28: in every state a report in a terminal status has both resolved_at  *)
(* and resolved_by set, and a report in pending or under_review has        *)
(* neither.                                                                 *)
C28_ResolutionFieldsAgree ==
    \A r \in ReportIds :
        reports[r].exists =>
            IF reports[r].status \in TerminalStatuses
            THEN reports[r].resolved_at # None /\ reports[r].resolved_by # "nobody"
            ELSE reports[r].resolved_at = None /\ reports[r].resolved_by = "nobody"

(* C29: in every state the comment_count of a post of the content app is  *)
(* the number of approved comments on it, and approving a comment that is  *)
(* approved already leaves comment_count as it was.                         *)
C29_CommentCountIsApproved ==
    [][ /\ \A p \in PostIds :
              (posts'[p].exists /\ posts'[p].app = "content") =>
                  posts'[p].comment_count =
                      Cardinality({c \in CommentIds :
                                      /\ comments'[c].exists
                                      /\ comments'[c].post = p
                                      /\ comments'[c].is_approved})
        /\ \A u \in Users, c \in CommentIds :
              (ContentApprove(u, c) /\ comments[c].is_approved)
                => posts'[comments[c].post].comment_count
                      = posts[comments[c].post].comment_count
      ]_vars

---------------------------------------------------------------------------
(* Properties of refused publish and unpublish calls *)

StatusNamed(p, n) ==
    posts[p].status # None /\ statuses[posts[p].status].name = n

(* C30: a publish or unpublish call by an actor who is not the author, or  *)
(* on a post not in the status the call requires, is refused; and every    *)
(* refused call leaves every post, its status and published_at included,   *)
(* and the registry as they were.                                           *)
C30_FailedPublishChangesNothing ==
    [][ \A u \in Actors, p \in PostIds :
          /\ (Publish(u, p) /\ (posts[p].author # u \/ ~StatusNamed(p, "draft")))
                => resp'.code # "ok" /\ posts' = posts
          /\ (Unpublish(u, p) /\ (posts[p].author # u \/ ~StatusNamed(p, "published")))
                => resp'.code # "ok" /\ posts' = posts
          /\ ((Publish(u, p) \/ Unpublish(u, p)) /\ resp'.code # "ok")
                => posts' = posts /\ statuses' = statuses
      ]_vars

(* A publish call on a post that is published already has just been        *)
(* refused to its author, and the post still has its publication time.     *)
C30_Witness ==
    /\ resp.op = "publish" /\ resp.code = "InvalidTransition"
    /\ posts[resp.id].exists /\ posts[resp.id].author = resp.actor
    /\ StatusNamed(resp.id, "published")
    /\ posts[resp.id].published_at # None
    /\ posts[resp.id].published_at < now

=============================================================================
